---- MODULE Spec2Model ----
(***************************************************************************)
(* The LBA directory (lba_list_t) of the log-structured serializer: the    *)
(* lifecycle, the mapping operations, the sync state machine               *)
(* (lba_syncer_t), the compaction state machine (gc_fsm_t) and the         *)
(* recovery state machine (lba_start_fsm_t) of                             *)
(* src/serializer/log/lba/lba_list.cc.                                     *)
(*                                                                         *)
(* The collaborators whose code is not part of lba_list.cc (the            *)
(* reader/writer lock, the on-disk LBA structure, the in-memory index) are *)
(* modelled at their interface.  Execution is single-threaded and          *)
(* cooperative: every action below is one uninterrupted run of a public    *)
(* operation or of a callback.                                             *)
(***************************************************************************)
EXTENDS Integers, Sequences, FiniteSets

\* ---------------------------------------------------------------- bounds
MaxBlocks == 2      \* block ids handed out by gen_block_id
MaxWrites == 2      \* set_block_offset / delete_block calls in a run
MaxFsms == 2        \* sync() and gc() calls in flight at a time

\* ------------------------------------------------------------- constants
DELETE_BLOCK == -1  \* the tombstone offset

\* a pointer is NULL or points to one object
NULL == << >>
Ptr(x) == <<x>>
Deref(p) == p[1]

BlockIds == 0 .. (MaxBlocks - 1)
Offsets == {1}       \* the offsets that callers pass to set_block_offset
OffsetOrDelete == Offsets \cup {DELETE_BLOCK}
\* slots for the lba_syncer_t and gc_fsm_t objects: one per call in flight,
\* and one more for the compaction that a sync() call may trigger
FsmIds == 1 .. (MaxFsms + 1)

\* what calling a member function through a NULL disk_structure can do: the
\* process is killed there, or the call does nothing and execution goes on
UbOutcomes == {"crash", "continue"}

Max(a, b) == IF a >= b THEN a ELSE b

\* ------------------------------------------------- in-memory index (table)
\* The Offset Table: a vector indexed by block id; entry b is at position
\* b + 1.  A block id that has been generated but never set reads as the
\* tombstone.

\* new in_memory_index_t(): the empty table
index_new == << >>

index_gen_block_id(idx) == Append(idx, DELETE_BLOCK)

index_max_block_id(idx) == Len(idx)

index_get_block_offset(idx, b) == idx[b + 1]

index_set_block_offset(idx, b, off) == [idx EXCEPT ![b + 1] = off]

index_delete_block(idx, b) == [idx EXCEPT ![b + 1] = DELETE_BLOCK]

\* what get_block_offset answers for every block id of the model: the
\* table as a mapping, ids not generated yet reading as the tombstone
View(idx) ==
    [b \in BlockIds |-> IF b < Len(idx) THEN idx[b + 1] ELSE DELETE_BLOCK]

\* position of the last entry for block b in a log, 0 when there is none
LastIdx(es, b) ==
    LET S == {k \in 1 .. Len(es) : es[k].id = b}
    IN  IF S = {} THEN 0 ELSE CHOOSE k \in S : \A j \in S : j <= k

\* one more than the largest block id a log mentions
LogSize(es) ==
    LET S == {es[k].id : k \in 1 .. Len(es)}
    IN  IF S = {} THEN 0 ELSE 1 + CHOOSE b \in S : \A c \in S : c <= b

\* new in_memory_index_t(disk_structure): replay the log, later entries for
\* an id supersede earlier ones
index_load(es) ==
    [p \in 1 .. LogSize(es) |->
        IF LastIdx(es, p - 1) = 0 THEN DELETE_BLOCK
        ELSE es[LastIdx(es, p - 1)].off]

\* --------------------------------------------------- on-disk LBA structure
\* One generation of the log: its entries in append order and how many of
\* them (a prefix) have reached the disk.
\* An entry carries, besides (id, off), the number of the set/delete call
\* on that id it stands for (ver), which only the properties read.

\* Which generation it is (gen) tells a generation from the one it
\* replaces: a compaction's create() gives the other of two names.
disk_create(g) == [entries |-> << >>, durable |-> 0, gen |-> g]

\* the name of the generation that replaces the one behind pointer p
NextGen(p) == IF p = NULL THEN 0 ELSE 1 - Deref(p).gen

disk_load(es) == [entries |-> es, durable |-> Len(es), gen |-> 0]

disk_add_entry(ds, b, off, v) ==
    [ds EXCEPT !.entries = Append(@, [id |-> b, off |-> off, ver |-> v])]

\* a flush that completes at once writes everything appended so far
disk_sync_now(ds) == [ds EXCEPT !.durable = Len(ds.entries)]

\* a deferred flush completes having written what was appended when it was
\* issued (mark)
disk_sync_done(ds, mark) == [ds EXCEPT !.durable = Max(@, mark)]

\* ------------------------------------------------------ reader/writer lock
\* state is "unlocked", "reading" (nreaders holders) or "writing"; queue is
\* the FIFO of requests that could not be granted, each [op, who].

\* a requester is named by its slot; 0 is the NULL callback
NullCb == 0

rwi_new == [state |-> "unlocked", nreaders |-> 0, queue |-> << >>]

try_lock_read(lk, from_queue) ==
    IF ~from_queue /\ lk.queue # << >> /\ Head(lk.queue).op = "write"
    THEN [ok |-> FALSE, lk |-> lk]
    ELSE IF lk.state = "writing"
    THEN [ok |-> FALSE, lk |-> lk]
    ELSE [ok |-> TRUE,
          lk |-> [lk EXCEPT !.state = "reading", !.nreaders = @ + 1]]

try_lock_write(lk, from_queue) ==
    IF ~from_queue /\ lk.queue # << >>
    THEN [ok |-> FALSE, lk |-> lk]
    ELSE IF lk.state # "unlocked"
    THEN [ok |-> FALSE, lk |-> lk]
    ELSE [ok |-> TRUE, lk |-> [lk EXCEPT !.state = "writing"]]

try_lock(lk, op, from_queue) ==
    IF op = "read" THEN try_lock_read(lk, from_queue)
    ELSE try_lock_write(lk, from_queue)

\* lock(access, callback): granted at once, or queued
rwi_lock(lk, op, who) ==
    LET r == try_lock(lk, op, FALSE)
    IN  IF r.ok THEN r
        ELSE [ok |-> FALSE,
              lk |-> [lk EXCEPT !.queue = Append(@, [op |-> op, who |-> who])]]

\* grant the queued requests in order while they are compatible; woken is
\* the set of requesters whose on_lock_available is now due
RECURSIVE process_queue(_, _)
process_queue(lk, woken) ==
    IF lk.queue = << >> THEN [lk |-> lk, woken |-> woken]
    ELSE LET r == try_lock(lk, Head(lk.queue).op, TRUE)
         IN  IF ~r.ok THEN [lk |-> lk, woken |-> woken]
             ELSE process_queue([r.lk EXCEPT !.queue = Tail(@)],
                                woken \cup {Head(lk.queue).who})

rwi_release(lk) ==
    IF lk.state = "reading"
    THEN [lk EXCEPT !.nreaders = @ - 1,
                    !.state = IF lk.nreaders = 1 THEN "unlocked" ELSE "reading"]
    ELSE [lk EXCEPT !.state = "unlocked"]

\* unlock(): release, then hand the lock to the waiters it now admits
rwi_unlock(lk) == process_queue(rwi_release(lk), {})


\* ------------------------------------------------------------------ state
VARIABLES
    state,                \* lba_list_t::state
    in_memory_index,      \* lba_list_t::in_memory_index (NULL or a table)
    disk_structure,       \* lba_list_t::disk_structure (NULL or a generation)
    disk_structure_lock,  \* lba_list_t::disk_structure_lock
    starter,              \* the lba_start_fsm_t of start(fd, metablock, cb)
    fsms,                 \* the live lba_syncer_t and gc_fsm_t objects
    fatal,                \* "none", or how the process died: a failed
                          \* assert(state == ...) ("assert_state"), the
                          \* failed assert(ok) of the lock downgrade
                          \* ("assert_downgrade"), a failed assertion of
                          \* the destructor on the two pointers
                          \* ("assert_null"), a NULL dereference or a use
                          \* of the deleted directory ("ub")
    ver,                  \* per block id: set/delete calls made so far
    written,              \* per block id: value of the last set/delete call
    synced,               \* per block id: the last set/delete call that a
                          \* completed sync covers (it was made before
                          \* that sync() was invoked)
    destructed,           \* the lba_list_t object has been deleted
    ev                    \* what the step that led here did

vars == <<state, in_memory_index, disk_structure, disk_structure_lock,
          starter, fsms, fatal, ver, written, synced, destructed, ev>>

ZeroVer == [b \in BlockIds |-> 0]

\* A slot holds no object (kind "none"), a syncer ("sync") or a compaction
\* ("gc").  Of the object: where it is (pc), how much of the log its flush
\* covers (mark) and the generation it was issued on (fgen); of a syncer, its callback field, what run() returned
\* (ret) and how often on_lba_sync ran (cbs).  For the properties: the
\* call counts at the moment sync() was invoked, or at a compaction's
\* replace step (sver), and the table at the moment sync() or gc() was
\* invoked (start).  A deleted object's slot is free again.
NoFsm == [kind |-> "none", pc |-> "idle", callback |-> FALSE, ret |-> "none",
          cbs |-> 0, mark |-> 0, fgen |-> 0, sver |-> ZeroVer,
          start |-> [b \in BlockIds |-> DELETE_BLOCK]]

\* The start fsm: pc, its callback field, what run() returned (ret), the
\* log being loaded.  NoStarter: there is none (not yet created, or it has
\* deleted itself).
NoStarter == [pc |-> "none", callback |-> FALSE, ret |-> "none",
              log |-> << >>]

\* ev: the operation or callback that ran (op); the syncer that finished
\* in it (fin, 0 for none), what its run() had returned (fret) and how
\* often its callback ran (fcbs); the compaction that finished in it
\* (gfin); the compaction that ran its replace step (rep) with the lock's
\* state (replk) and the number of other lock holders (holders) at that
\* moment; the lock's state when a syncer issued its flush (wrlk); for a
\* start fsm that finished in it, what its run() returned (sret), how
\* often on_lba_ready ran (scbs) and the directory's state and index as
\* that callback found them (sawst, sawidx).
Ev(op) == [op |-> op, fin |-> 0, fret |-> "none", fcbs |-> 0, gfin |-> 0,
           rep |-> 0, replk |-> "none", holders |-> 0, wrlk |-> "none",
           sret |-> "none", scbs |-> 0, sawst |-> "none", sawidx |-> NULL]

\* the steps' common working record: the fields a sync or a compaction
\* reads and writes, threaded through the calls of one handler
\* (ub: what a NULL dereference, or a use of the deleted directory, in
\* this handler does; gone: the directory has been deleted)
Cur(ub) ==
    [st |-> state, idx |-> in_memory_index, ds |-> disk_structure,
     lk |-> disk_structure_lock, fsm |-> fsms,
     ft |-> fatal, ver |-> ver, ev |-> Ev("none"), ub |-> ub,
     gone |-> destructed]

\* the calls covered by completed syncs after a step in which syncer
\* m.ev.fin (if any) finished: those made before its sync() was invoked
SyncedAfter(m) ==
    LET k == m.ev.fin
        sv == IF fsms[k].kind = "none" THEN ver ELSE fsms[k].sver
    IN  IF k = 0 THEN synced
        ELSE [b \in BlockIds |-> Max(synced[b], sv[b])]

Install(m, op) ==
    /\ synced' = SyncedAfter(m)
    /\ disk_structure' = m.ds
    /\ disk_structure_lock' = m.lk
    /\ fsms' = m.fsm
    /\ fatal' = m.ft
    /\ ev' = [m.ev EXCEPT !.op = op]

\* the table behind a pointer, as a mapping (a NULL table maps nothing)
ViewOf(p) == IF p = NULL THEN View(<< >>) ELSE View(Deref(p))

\* requests granted from the queue: their on_lock_available is now due
Wake(m, woken) ==
    [m EXCEPT
        !.fsm = [k \in FsmIds |->
                   IF k \in woken
                   THEN [m.fsm[k] EXCEPT !.pc = "granted"] ELSE m.fsm[k]]]

\* the objects that hold the lock, or have been granted it
Holding(m) ==
    Cardinality({k \in FsmIds : m.fsm[k].pc \in {"granted", "flushing"}})

\* ------------------------------------------------------------ lba_syncer_t
\* owner->disk_structure_lock.unlock() on a deleted directory: the process
\* is killed, or the lock's memory is still there and execution goes on
syncer_finish(m, i) ==
    LET u == rwi_unlock(m.lk)
    IN  IF m.gone /\ m.ub = "crash"
        THEN [m EXCEPT !.ft = "ub", !.fsm[i].pc = "failed"]
        ELSE
        Wake([m EXCEPT !.lk = u.lk,
                       !.fsm[i] = NoFsm,
                       !.ev.fin = i,
                       !.ev.fret = m.fsm[i].ret,
                       !.ev.fcbs = IF m.fsm[i].callback
                                   THEN m.fsm[i].cbs + 1 ELSE m.fsm[i].cbs],
             u.woken)

\* disk_structure->sync(this) answers imm.  Through a NULL disk_structure
\* (the directory was shut down while the syncer waited): the process is
\* killed, or the call does nothing and answers imm, no completion ever
\* arriving for an answer of false.
syncer_do_write(m, i, imm) ==
    IF m.ds = NULL
    THEN IF m.ub = "crash"
         THEN [ret |-> FALSE,
               m |-> [m EXCEPT !.ft = "ub", !.fsm[i].pc = "failed"]]
         ELSE IF imm THEN [ret |-> TRUE, m |-> syncer_finish(m, i)]
         ELSE [ret |-> FALSE, m |-> [m EXCEPT !.fsm[i].pc = "failed"]]
    ELSE LET m1 == [m EXCEPT !.ev.wrlk = m.lk.state]
         IN  IF imm
             THEN [ret |-> TRUE,
                   m |-> syncer_finish(
                            [m1 EXCEPT !.ds = Ptr(disk_sync_now(Deref(@)))], i)]
             ELSE [ret |-> FALSE,
                   m |-> [m1 EXCEPT !.fsm[i].pc = "flushing",
                                    !.fsm[i].mark = Len(Deref(m.ds).entries),
                                    !.fsm[i].fgen = Deref(m.ds).gen]]

\* mutant: the syncer asks for the lock in write mode
syncer_do_acquire_lock_write(m, i, imm) ==
    LET r == rwi_lock(m.lk, "write", i)
    IN  IF r.ok THEN syncer_do_write([m EXCEPT !.lk = r.lk], i, imm)
        ELSE [ret |-> FALSE,
              m |-> [m EXCEPT !.lk = r.lk, !.fsm[i].pc = "lockwait"]]

syncer_do_acquire_lock(m, i, imm) ==
    LET r == rwi_lock(m.lk, "read", i)
    IN  IF r.ok THEN syncer_do_write([m EXCEPT !.lk = r.lk], i, imm)
        ELSE [ret |-> FALSE,
              m |-> [m EXCEPT !.lk = r.lk, !.fsm[i].pc = "lockwait"]]

\* mutant: the callback is stored before the lock is taken
syncer_run_cb_first(m, i, imm) ==
    LET r == syncer_do_acquire_lock([m EXCEPT !.fsm[i].callback = TRUE], i, imm)
    IN  IF r.m.ft # "none" THEN r.m
        ELSE IF r.ret THEN [r.m EXCEPT !.ev.fret = "true"]
        ELSE [r.m EXCEPT !.fsm[i].callback = TRUE, !.fsm[i].ret = "false"]

syncer_run(m, i, imm) ==
    LET r == syncer_do_acquire_lock([m EXCEPT !.fsm[i].callback = FALSE], i, imm)
    IN  IF r.m.ft # "none" THEN r.m
        ELSE IF r.ret THEN [r.m EXCEPT !.ev.fret = "true"]
        ELSE [r.m EXCEPT !.fsm[i].callback = TRUE, !.fsm[i].ret = "false"]

syncer_on_lock_available(m, i, imm) == syncer_do_write(m, i, imm).m

syncer_on_sync_lba(m, i) == syncer_finish(m, i)

\* ---------------------------------------------------------------- gc_fsm_t
\* mutant: the compaction deletes itself without releasing the lock
gc_do_cleanup_no_unlock(m, j) ==
    [m EXCEPT !.fsm[j] = NoFsm, !.ev.gfin = j]

gc_do_cleanup(m, j) ==
    LET u == rwi_unlock(m.lk)
    IN  IF m.gone /\ m.ub = "crash"
        THEN [m EXCEPT !.ft = "ub", !.fsm[j].pc = "failed"]
        ELSE Wake([m EXCEPT !.lk = u.lk, !.fsm[j] = NoFsm, !.ev.gfin = j],
                  u.woken)

\* mutant: the copy loop skips the deleted block ids
RECURSIVE gc_copy_live_only(_, _, _, _)
gc_copy_live_only(ds, idx, vs, id) ==
    IF id >= index_max_block_id(idx) THEN ds
    ELSE gc_copy_live_only(
            IF index_get_block_offset(idx, id) = DELETE_BLOCK THEN ds
            ELSE disk_add_entry(ds, id, index_get_block_offset(idx, id),
                                vs[id]),
            idx, vs, id + 1)

\* mutant: the copy loop stops one block id early
RECURSIVE gc_copy_short(_, _, _, _)
gc_copy_short(ds, idx, vs, id) ==
    IF id + 1 >= index_max_block_id(idx) THEN ds
    ELSE gc_copy_short(
            disk_add_entry(ds, id, index_get_block_offset(idx, id), vs[id]),
            idx, vs, id + 1)

\* for (id = 0; id < max_block_id(); id++) add_entry(id, get_block_offset(id))
RECURSIVE gc_copy(_, _, _, _)
gc_copy(ds, idx, vs, id) ==
    IF id >= index_max_block_id(idx) THEN ds
    ELSE gc_copy(disk_add_entry(ds, id, index_get_block_offset(idx, id), vs[id]),
                 idx, vs, id + 1)

\* destroy() through a NULL disk_structure kills the process or does
\* nothing; create() installs the new generation; the loop's
\* max_block_id() asserts state == state_ready.
gc_do_replace_disk_structure(m, j, imm) ==
    IF m.ds = NULL /\ m.ub = "crash"
    THEN [m EXCEPT !.ft = "ub", !.fsm[j].pc = "failed"]
    ELSE IF m.st # "ready"
    THEN [m EXCEPT !.ds = Ptr(disk_create(NextGen(m.ds))), !.ft = "assert_state",
                   !.fsm[j].pc = "failed"]
    ELSE
    LET ds1 == gc_copy(disk_create(NextGen(m.ds)), Deref(m.idx), m.ver, 0)
        u == rwi_unlock(m.lk)
        r == rwi_lock(u.lk, "read", NullCb)
        m0 == [m EXCEPT !.fsm[j].pc = "replacing", !.fsm[j].sver = m.ver]
        m1 == Wake([m0 EXCEPT !.ds = Ptr(ds1),
                              !.lk = r.lk,
                              !.ev.rep = j,
                              !.ev.replk = m.lk.state,
                              !.ev.holders = Holding(m0)],
                   u.woken)
    IN  IF ~r.ok
        THEN [m1 EXCEPT !.ft = "assert_downgrade", !.fsm[j].pc = "failed"]
        ELSE IF imm
        THEN gc_do_cleanup([m1 EXCEPT !.ds = Ptr(disk_sync_now(Deref(@)))], j)
        ELSE [m1 EXCEPT !.fsm[j].pc = "flushing",
                        !.fsm[j].mark = Len(ds1.entries),
                        !.fsm[j].fgen = ds1.gen]

\* mutant: the result of lock() is ignored
gc_fsm_t_nolock(m, j, imm) ==
    LET r == rwi_lock(m.lk, "write", j)
        m0 == [m EXCEPT !.lk = r.lk, !.fsm[j].kind = "gc",
                        !.fsm[j].start = ViewOf(m.idx)]
    IN  gc_do_replace_disk_structure(m0, j, imm)

gc_fsm_t(m, j, imm) ==
    LET r == rwi_lock(m.lk, "write", j)
        m0 == [m EXCEPT !.lk = r.lk, !.fsm[j].kind = "gc",
                        !.fsm[j].start = ViewOf(m.idx)]
    IN  IF r.ok THEN gc_do_replace_disk_structure(m0, j, imm)
        ELSE [m0 EXCEPT !.fsm[j].pc = "lockwait"]

gc_on_lock_available(m, j, imm) == gc_do_replace_disk_structure(m, j, imm)

gc_on_sync_lba(m, j) == gc_do_cleanup(m, j)

\* --------------------------------------------------------- lba_start_fsm_t
\* the logs a database file may hold when it is opened
E(b, off, v) == [id |-> b, off |-> off, ver |-> v]

PersistedLogs ==
    { << >>,
      << E(0, 1, 1) >>,
      << E(0, 1, 1), E(0, DELETE_BLOCK, 2) >>,
      << E(1, 2, 1), E(0, 1, 1) >> }

LogVer(es) == [b \in BlockIds |-> Cardinality({k \in 1 .. Len(es) : es[k].id = b})]

LogWritten(es) ==
    [b \in BlockIds |-> IF LastIdx(es, b) = 0 THEN 0 ELSE es[LastIdx(es, b)].off]

\* mutant: on_lba_ready is called before the table is built and the
\* state set
start_finish_cb_first(s) ==
    LET idx1 == Ptr(index_load(Deref(s.ds).entries))
        s1 == IF s.sf.callback
              THEN [s EXCEPT !.ev.scbs = @ + 1,
                             !.ev.sawst = s.st,
                             !.ev.sawidx = s.idx]
              ELSE s
    IN  [s1 EXCEPT !.idx = idx1, !.st = "ready", !.sf = NoStarter,
                   !.ev.sret = s.sf.ret]

\* s is [st, idx, ds, sf, ev]: the directory's state, index and disk
\* structure, the start fsm and the step's record
start_finish(s) ==
    LET idx1 == Ptr(index_load(Deref(s.ds).entries))
        s1 == [s EXCEPT !.idx = idx1, !.st = "ready"]
        s2 == IF s.sf.callback
              THEN [s1 EXCEPT !.ev.scbs = @ + 1,
                              !.ev.sawst = s1.st,
                              !.ev.sawidx = s1.idx]
              ELSE s1
    IN  [s2 EXCEPT !.sf = NoStarter, !.ev.sret = s.sf.ret]

start_run(s, log, done) ==
    LET s1 == [s EXCEPT !.st = "starting_up"]
    IN  IF done
        THEN [start_finish([s1 EXCEPT !.ds = Ptr(disk_load(log)),
                                      !.sf.callback = FALSE])
                 EXCEPT !.ev.sret = "true"]
        ELSE [s1 EXCEPT !.sf.pc = "loading", !.sf.log = log,
                        !.sf.callback = TRUE, !.sf.ret = "false",
                        !.ev.sret = "false"]

start_on_load_lba(s) ==
    start_finish([s EXCEPT !.ds = Ptr(disk_load(s.sf.log))])

CurStart == [st |-> state, idx |-> in_memory_index, ds |-> disk_structure,
             sf |-> starter, ev |-> Ev("none")]

InstallStart(s, op) ==
    /\ state' = s.st
    /\ in_memory_index' = s.idx
    /\ disk_structure' = s.ds
    /\ starter' = s.sf
    /\ ev' = [s.ev EXCEPT !.op = op]

\* ----------------------------------------------- lba_list_t: the operations
Alive == fatal = "none"

\* a caller can call the directory: the process lives and the object has
\* not been deleted
Callable == Alive /\ ~destructed

\* start(fd): create a new database
Start ==
    /\ Callable
    /\ state = "unstarted"
    /\ in_memory_index' = Ptr(index_new)
    /\ disk_structure' = Ptr(disk_create(0))
    /\ state' = "ready"
    /\ ev' = Ev("start")
    /\ UNCHANGED <<disk_structure_lock, starter, fsms, fatal, ver, written, synced, destructed>>

\* start(fd, last_metablock, cb): load an existing database
StartLoad(log, done) ==
    /\ Callable
    /\ state = "unstarted"
    /\ InstallStart(start_run(CurStart, log, done), "start_load")
    /\ ver' = IF done THEN LogVer(log) ELSE ver
    /\ written' = IF done THEN LogWritten(log) ELSE written
    /\ UNCHANGED <<disk_structure_lock, fsms, fatal, synced, destructed>>

\* the deferred load completes
OnLoadLba ==
    /\ Alive
    /\ starter.pc = "loading"
    /\ InstallStart(start_on_load_lba(CurStart), "on_load_lba")
    /\ ver' = LogVer(starter.log)
    /\ written' = LogWritten(starter.log)
    /\ UNCHANGED <<disk_structure_lock, fsms, fatal, synced, destructed>>

GenBlockId ==
    /\ Callable
    /\ state = "ready"
    /\ index_max_block_id(Deref(in_memory_index)) < MaxBlocks
    /\ in_memory_index' = Ptr(index_gen_block_id(Deref(in_memory_index)))
    /\ ev' = Ev("gen_block_id")
    /\ UNCHANGED <<state, disk_structure, disk_structure_lock, starter,
                   fsms, fatal, ver, written, synced, destructed>>

MaxBlockId ==
    /\ Callable
    /\ state = "ready"
    /\ ev' = Ev("max_block_id")
    /\ UNCHANGED <<state, in_memory_index, disk_structure,
                   disk_structure_lock, starter, fsms, fatal,
                   ver, written, synced, destructed>>

GetBlockOffset(b) ==
    /\ Callable
    /\ state = "ready"
    /\ b < index_max_block_id(Deref(in_memory_index))
    /\ ev' = Ev("get_block_offset")
    /\ UNCHANGED <<state, in_memory_index, disk_structure,
                   disk_structure_lock, starter, fsms, fatal,
                   ver, written, synced, destructed>>

RECURSIVE SumVer(_, _)
SumVer(vs, b) == IF b >= MaxBlocks THEN 0 ELSE vs[b] + SumVer(vs, b + 1)

\* mutant: the entry is not appended to the log
lba_set_block_offset_no_append(w, b, off, v) ==
    [idx |-> Ptr(index_set_block_offset(Deref(w.idx), b, off)),
     ds |-> w.ds]

\* mutant: the table is not updated, only the log
lba_set_block_offset_log_only(w, b, off, v) ==
    [idx |-> w.idx,
     ds |-> Ptr(disk_add_entry(Deref(w.ds), b, off, v))]

\* w is [idx, ds]: the two structures a mapping change touches
lba_set_block_offset(w, b, off, v) ==
    [idx |-> Ptr(index_set_block_offset(Deref(w.idx), b, off)),
     ds |-> Ptr(disk_add_entry(Deref(w.ds), b, off, v))]

\* mutant: the table is not updated
lba_delete_block_log_only(w, b, v) ==
    [idx |-> w.idx,
     ds |-> Ptr(disk_add_entry(Deref(w.ds), b, DELETE_BLOCK, v))]

lba_delete_block(w, b, v) ==
    [idx |-> Ptr(index_delete_block(Deref(w.idx), b)),
     ds |-> Ptr(disk_add_entry(Deref(w.ds), b, DELETE_BLOCK, v))]

CurMap == [idx |-> in_memory_index, ds |-> disk_structure]

SetBlockOffset(b, off) ==
    /\ Callable
    /\ state = "ready"
    /\ b < index_max_block_id(Deref(in_memory_index))
    /\ SumVer(ver, 0) < MaxWrites
    /\ LET w == lba_set_block_offset(CurMap, b, off, ver[b] + 1)
       IN  /\ in_memory_index' = w.idx
           /\ disk_structure' = w.ds
    /\ ver' = [ver EXCEPT ![b] = @ + 1]
    /\ written' = [written EXCEPT ![b] = off]
    /\ ev' = Ev("set_block_offset")
    /\ UNCHANGED <<state, disk_structure_lock, starter, fsms,
                   fatal, synced, destructed>>

DeleteBlock(b) ==
    /\ Callable
    /\ state = "ready"
    /\ b < index_max_block_id(Deref(in_memory_index))
    /\ SumVer(ver, 0) < MaxWrites
    /\ LET w == lba_delete_block(CurMap, b, ver[b] + 1)
       IN  /\ in_memory_index' = w.idx
           /\ disk_structure' = w.ds
    /\ ver' = [ver EXCEPT ![b] = @ + 1]
    /\ written' = [written EXCEPT ![b] = DELETE_BLOCK]
    /\ ev' = Ev("delete_block")
    /\ UNCHANGED <<state, disk_structure_lock, starter, fsms,
                   fatal, synced, destructed>>

\* the free slots; a new object takes the lowest
FreeSlots == {k \in FsmIds : fsms[k].kind = "none"}
\* a further sync() or gc() call fits the bound
CanCall == Cardinality(FsmIds \ FreeSlots) < MaxFsms
Lowest(S) == CHOOSE i \in S : \A k \in S : i <= k

\* sync(cb); trigger is the outcome of rand() % 5 == 1
lba_sync(m, i, j, trigger, immGc, immSync) ==
    LET m0 == [m EXCEPT !.fsm[i].kind = "sync", !.fsm[i].sver = m.ver,
                        !.fsm[i].start = ViewOf(m.idx)]
        m1 == IF trigger THEN gc_fsm_t(m0, j, immGc) ELSE m0
    IN  IF m1.ft # "none" THEN m1 ELSE syncer_run(m1, i, immSync)

Sync(trigger, immGc, immSync, ub) ==
    /\ Callable
    /\ state = "ready"
    /\ CanCall
    /\ ~trigger => ~immGc
    /\ LET j == Lowest(FreeSlots)
           i == IF trigger THEN Lowest(FreeSlots \ {j}) ELSE j
       IN  Install(lba_sync(Cur(ub), i, j, trigger, immGc, immSync), "sync")
    /\ UNCHANGED <<state, in_memory_index, starter, ver, written, destructed>>

\* gc(): no check of the directory's state
Gc(imm, ub) ==
    /\ Callable
    /\ CanCall
    /\ Install(gc_fsm_t(Cur(ub), Lowest(FreeSlots), imm), "gc")
    /\ UNCHANGED <<state, in_memory_index, starter, ver, written, destructed>>

SyncerOnLockAvailable(i, imm, ub) ==
    /\ Alive
    /\ fsms[i].kind = "sync"
    /\ fsms[i].pc = "granted"
    /\ Install(syncer_on_lock_available(Cur(ub), i, imm), "syncer_on_lock_available")
    /\ UNCHANGED <<state, in_memory_index, starter, ver, written, destructed>>

\* the flush a syncer issued completes
\* (a flush writes the generation it was issued on, g: nothing of the
\* current one if that is another, or none)
FlushDone(m, mark, g) ==
    IF m.ds = NULL \/ Deref(m.ds).gen # g THEN m
    ELSE [m EXCEPT !.ds = Ptr(disk_sync_done(Deref(@), mark))]

SyncerOnSyncLba(i, ub) ==
    /\ Alive
    /\ fsms[i].kind = "sync"
    /\ fsms[i].pc = "flushing"
    /\ Install(syncer_on_sync_lba(FlushDone(Cur(ub), fsms[i].mark, fsms[i].fgen), i),
               "syncer_on_sync_lba")
    /\ UNCHANGED <<state, in_memory_index, starter, ver, written, destructed>>

GcOnLockAvailable(j, imm, ub) ==
    /\ Alive
    /\ fsms[j].kind = "gc"
    /\ fsms[j].pc = "granted"
    /\ Install(gc_on_lock_available(Cur(ub), j, imm), "gc_on_lock_available")
    /\ UNCHANGED <<state, in_memory_index, starter, ver, written, destructed>>

GcOnSyncLba(j, ub) ==
    /\ Alive
    /\ fsms[j].kind = "gc"
    /\ fsms[j].pc = "flushing"
    /\ Install(gc_on_sync_lba(FlushDone(Cur(ub), fsms[j].mark, fsms[j].fgen), j),
               "gc_on_sync_lba")
    /\ UNCHANGED <<state, in_memory_index, starter, ver, written, destructed>>

\* prepare_metablock(mb_out): no check of the directory's state; through a
\* NULL disk_structure the process is killed or the call does nothing
PrepareMetablock(ub) ==
    /\ Callable
    /\ fatal' = IF disk_structure = NULL /\ ub = "crash" THEN "ub" ELSE fatal
    /\ ev' = Ev("prepare_metablock")
    /\ UNCHANGED <<state, in_memory_index, disk_structure,
                   disk_structure_lock, starter, fsms, ver, written, synced, destructed>>

\* mutant: the in-memory index is not released
Shutdown_keeps_index ==
    /\ Callable
    /\ state = "ready"
    /\ disk_structure' = NULL
    /\ state' = "shut_down"
    /\ ev' = Ev("shutdown")
    /\ UNCHANGED <<in_memory_index, disk_structure_lock, starter, fsms,
                   fatal, ver, written, synced, destructed>>

Shutdown ==
    /\ Callable
    /\ state = "ready"
    /\ in_memory_index' = NULL
    /\ disk_structure' = NULL
    /\ state' = "shut_down"
    /\ ev' = Ev("shutdown")
    /\ UNCHANGED <<disk_structure_lock, starter, fsms, fatal, ver, written, synced, destructed>>

\* ~lba_list_t(): the three assertions, then the object is gone; the
\* syncers and compactions still in flight keep their owner pointer
Destruct ==
    /\ Callable
    /\ fatal' = IF state \notin {"unstarted", "shut_down"} THEN "assert_state"
                ELSE IF in_memory_index # NULL \/ disk_structure # NULL
                THEN "assert_null"
                ELSE fatal
    /\ destructed' = (fatal' = "none")
    /\ ev' = Ev("destruct")
    /\ UNCHANGED <<state, in_memory_index, disk_structure,
                   disk_structure_lock, starter, fsms, ver, written, synced>>

\* an operation that asserts state == state_ready, called in another state
ReadyOps == {"gen_block_id", "max_block_id", "get_block_offset",
             "set_block_offset", "delete_block", "sync", "shutdown"}

CallNotReady(op) ==
    /\ Callable
    /\ state # "ready"
    /\ fatal' = "assert_state"
    /\ ev' = Ev(op)
    /\ UNCHANGED <<state, in_memory_index, disk_structure,
                   disk_structure_lock, starter, fsms, ver,
                   written, synced, destructed>>

\* either start, called when the directory is not unstarted
StartOps == {"start", "start_load"}

StartNotUnstarted(op) ==
    /\ Callable
    /\ state # "unstarted"
    /\ fatal' = "assert_state"
    /\ ev' = Ev(op)
    /\ UNCHANGED <<state, in_memory_index, disk_structure,
                   disk_structure_lock, starter, fsms, ver,
                   written, synced, destructed>>

Init ==
    /\ state = "unstarted"
    /\ in_memory_index = NULL
    /\ disk_structure = NULL
    /\ disk_structure_lock = rwi_new
    /\ starter = NoStarter
    /\ fsms = [k \in FsmIds |-> NoFsm]
    /\ fatal = "none"
    /\ ver = ZeroVer
    /\ written = [b \in BlockIds |-> 0]
    /\ synced = ZeroVer
    /\ destructed = FALSE
    /\ ev = Ev("init")

Next ==
    \/ Start
    \/ \E log \in PersistedLogs, done \in BOOLEAN : StartLoad(log, done)
    \/ OnLoadLba
    \/ GenBlockId
    \/ MaxBlockId
    \/ \E b \in BlockIds : GetBlockOffset(b)
    \/ \E b \in BlockIds, off \in Offsets : SetBlockOffset(b, off)
    \/ \E b \in BlockIds : DeleteBlock(b)
    \/ \E trigger, immGc, immSync \in BOOLEAN, ub \in UbOutcomes :
          Sync(trigger, immGc, immSync, ub)
    \/ \E imm \in BOOLEAN, ub \in UbOutcomes : Gc(imm, ub)
    \/ \E i \in FsmIds, imm \in BOOLEAN, ub \in UbOutcomes :
          SyncerOnLockAvailable(i, imm, ub)
    \/ \E i \in FsmIds, ub \in UbOutcomes : SyncerOnSyncLba(i, ub)
    \/ \E j \in FsmIds, imm \in BOOLEAN, ub \in UbOutcomes :
          GcOnLockAvailable(j, imm, ub)
    \/ \E j \in FsmIds, ub \in UbOutcomes : GcOnSyncLba(j, ub)
    \/ \E ub \in UbOutcomes : PrepareMetablock(ub)
    \/ Shutdown
    \/ Destruct
    \/ \E op \in ReadyOps : CallNotReady(op)
    \/ \E op \in StartOps : StartNotUnstarted(op)

Spec == Init /\ [][Next]_vars


\* ------------------------------------------------------------- properties
\* the entries of a generation that have reached the disk
Durable(ds) == SubSeq(ds.entries, 1, ds.durable)

\* the table a restart would rebuild from the current generation's durable
\* contents, as a mapping
Reloaded(p) == View(index_load(Durable(Deref(p))))

\* the number of the last set/delete call on b that the durable contents
\* hold (0 for none)
DurableVer(p, b) ==
    LET es == Durable(Deref(p))
    IN  IF LastIdx(es, b) = 0 THEN 0 ELSE es[LastIdx(es, b)].ver

\* In a step that deletes the object of slot k: the object as it was
\* before the step, or, if it was only created in this step, as its
\* creation in this step made it.
CallCountsAtStart(k) == IF fsms[k].kind = "none" THEN ver ELSE fsms[k].sver
TableAtStart(k) ==
    IF fsms[k].kind = "none" THEN ViewOf(in_memory_index) ELSE fsms[k].start

\* C1: when a sync completes (returns true, or its callback fires), every
\* set_block_offset/delete_block call that returned before sync() was
\* invoked is in the flushed contents of the current generation: for every
\* block id the durable log holds that call's entry or a later one.
C1_SyncCoversEarlierCalls ==
    [][(ev'.fin # 0 /\ disk_structure' # NULL)
         => \A b \in BlockIds :
               DurableVer(disk_structure', b) >= CallCountsAtStart(ev'.fin)[b]]_vars

\* a sync() that triggered a compaction and completed inside the call,
\* after set/delete calls
C1_Witness ==
    /\ ev.op = "sync" /\ ev.fin # 0 /\ ev.rep # 0
    /\ disk_structure # NULL
    /\ \E b \in BlockIds : ver[b] > 0 /\ DurableVer(disk_structure, b) = ver[b]

\* C2: after set/delete calls followed by a sync that completes, the table
\* rebuilt from the durable contents of the current generation is the
\* in-memory table as it was when sync() was invoked.  (The calls precede
\* the sync: none is made between its invocation and its completion.)
C2_ReloadAfterSync ==
    [][(ev'.fin # 0 /\ disk_structure' # NULL
        /\ CallCountsAtStart(ev'.fin) = ver')
         => Reloaded(disk_structure') = TableAtStart(ev'.fin)]_vars

\* a sync completed by its callback, with a set followed by a delete of
\* the same block before it: the reload gives the tombstone
C2_Witness ==
    /\ ev.fin # 0 /\ ev.fcbs = 1
    /\ disk_structure # NULL
    /\ \E b \in BlockIds :
          /\ ver[b] = 2 /\ written[b] = DELETE_BLOCK
          /\ DurableVer(disk_structure, b) = 2
          /\ Reloaded(disk_structure)[b] = DELETE_BLOCK

\* C3 as stated: when a compaction has run to completion, the table
\* rebuilt from the new generation's durable contents is the in-memory
\* table as it was when the compaction was started (gc() invoked).
C3_ReloadIsTableAtGcStart ==
    [][(ev'.gfin # 0 /\ disk_structure' # NULL)
         => Reloaded(disk_structure') = TableAtStart(ev'.gfin)]_vars

\* C3 amended: when a compaction has run to completion, the durable
\* contents of the new generation hold, for every block id, the last call
\* made before the replace step or a later one; and if no set/delete was
\* made after the replace step, the rebuilt table is the in-memory table
\* (which is the table of the replace step).
C3_ReloadIsTableAtReplace ==
    [][(ev'.gfin # 0 /\ disk_structure' # NULL)
         => LET rver == IF ev'.rep = ev'.gfin THEN ver
                        ELSE fsms[ev'.gfin].sver
            IN  /\ \A b \in BlockIds : DurableVer(disk_structure', b) >= rver[b]
                /\ rver = ver'
                     => Reloaded(disk_structure') = ViewOf(in_memory_index')]_vars

\* a compaction that waited for the lock completes, the table having
\* changed between gc() and completion
C3_Witness ==
    /\ ev.gfin # 0 /\ ev.op = "gc_on_sync_lba"
    /\ disk_structure # NULL
    /\ \E b \in BlockIds : ver[b] > 0 /\ DurableVer(disk_structure, b) = ver[b]

\* C4: right after a compaction's replace step the new generation holds,
\* for every block id that set/delete was called on, the last value
\* written.
C4_NoLostUpdate ==
    (ev.rep # 0 /\ disk_structure # NULL)
      => \A b \in BlockIds :
            written[b] # 0
              => LET es == Deref(disk_structure).entries
                 IN  /\ LastIdx(es, b) # 0
                     /\ es[LastIdx(es, b)].off = written[b]

\* a compaction that waited for the write lock runs its replace step, the
\* table having changed since gc() was invoked
C4_Witness ==
    /\ ev.rep # 0 /\ ev.op = "gc_on_lock_available"
    /\ fsms[ev.rep].kind = "gc" /\ fsms[ev.rep].pc = "flushing"
    /\ fsms[ev.rep].start # ViewOf(in_memory_index)

\* C5: a compaction runs its replace step only holding the lock in write
\* mode, with no other object holding it, and a syncer issues its flush
\* only holding the lock in read mode.
C5_MutualExclusion ==
    /\ ev.rep # 0 => (ev.replk = "writing" /\ ev.holders = 0)
    /\ ev.wrlk # "none" => ev.wrlk = "reading"

\* a replace step has run while a syncer waited for the lock; the
\* downgrade's unlock admitted the syncer
C5_Witness ==
    /\ ev.rep # 0 /\ ev.replk = "writing" /\ ev.holders = 0
    /\ \E k \in FsmIds : fsms[k].kind = "sync" /\ fsms[k].pc = "granted"

\* C6: the lock downgrade of a compaction always succeeds: assert(ok)
\* never fails.
C6_DowngradeSucceeds == fatal # "assert_downgrade"

\* The "never both" half of the sync contract: a sync that returned true
\* runs no callback, a sync that returned false runs it at most once: a
\* live syncer has returned false and not run it yet; a syncer that
\* finishes has returned true and not run it, or returned false and now
\* run it once.
C7_SyncEitherOr ==
    /\ \A k \in FsmIds :
          (fsms[k].kind = "sync" /\ fsms[k].pc # "failed")
            => (fsms[k].ret = "false" /\ fsms[k].callback /\ fsms[k].cbs = 0)
    /\ ev.fin # 0
         => \/ ev.fret = "true" /\ ev.fcbs = 0 /\ ev.op = "sync"
            \/ ev.fret = "false" /\ ev.fcbs = 1 /\ ev.op # "sync"

\* a sync whose lock grant was deferred and whose flush was immediate
C7_Witness ==
    ev.op = "syncer_on_lock_available" /\ ev.fin # 0 /\ ev.fcbs = 1

\* C7: a sync either returns true and never runs the callback, or returns
\* false and runs it exactly once later, never both and never neither: the
\* half above holds in every state, and every syncer whose run() returned
\* false eventually finishes, on_lba_sync run once.
C7_SyncCallbackExactlyOnce ==
    /\ []C7_SyncEitherOr
    /\ \A k \in FsmIds :
          (fsms[k].kind = "sync" /\ fsms[k].ret = "false")
            ~> (ev.fin = k /\ ev.fret = "false" /\ ev.fcbs = 1)

\* C8: start(fd, metablock, cb) either returns true with the directory
\* ready and never runs on_lba_ready, or returns false, leaves the
\* directory starting_up until the load completes, and then runs
\* on_lba_ready once, the directory ready and the table built from the
\* loaded log when the callback runs.
C8_StartEitherOr ==
    /\ starter.pc = "loading"
         => (state = "starting_up" /\ starter.ret = "false" /\ starter.callback)
    /\ (ev.op = "start_load" /\ fatal = "none")
         => \/ ev.sret = "true" /\ ev.scbs = 0 /\ state = "ready"
            \/ ev.sret = "false" /\ ev.scbs = 0 /\ state = "starting_up"
    /\ ev.op = "on_load_lba"
         => /\ ev.sret = "false" /\ ev.scbs = 1
            /\ ev.sawst = "ready"
            /\ ev.sawidx # NULL
            /\ Deref(ev.sawidx) = index_load(Deref(disk_structure).entries)
    /\ ev.scbs # 0 => ev.op = "on_load_lba"

\* a deferred load of a non-empty log has completed
C8_Witness ==
    /\ ev.op = "on_load_lba" /\ ev.scbs = 1
    /\ Len(Deref(in_memory_index)) = 2

\* C9: the lifecycle only moves forward, unstarted -> starting_up -> ready
\* -> shut_down; starting_up is entered only by the loading start from
\* unstarted, ready is left only by shutdown, shut_down is never left.  In
\* unstarted and shut_down the directory has no table and no disk
\* structure, in ready it has both (while the process lives).
Rank(st) ==
    IF st = "unstarted" THEN 0
    ELSE IF st = "starting_up" THEN 1
    ELSE IF st = "ready" THEN 2 ELSE 3

C9_Lifecycle ==
    /\ [](fatal = "none"
            => /\ state \in {"unstarted", "shut_down"}
                    => (in_memory_index = NULL /\ disk_structure = NULL)
               /\ state = "ready"
                    => (in_memory_index # NULL /\ disk_structure # NULL))
    /\ [][state' # state
            => /\ Rank(state') > Rank(state)
               /\ state' = "starting_up"
                    => (state = "unstarted" /\ ev'.op = "start_load")
               /\ state' = "ready"
                    => ev'.op \in {"start", "start_load", "on_load_lba"}
               /\ state = "starting_up" => state' = "ready"
               /\ state = "ready"
                    => (state' = "shut_down" /\ ev'.op = "shutdown")]_vars

\* the directory has been loaded, used and shut down
C9_Witness ==
    state = "shut_down" /\ ev.op = "shutdown" /\ \E b \in BlockIds : ver[b] > 0

\* C10: every operation that needs the directory ready, called in another
\* state, and either start called when it is not unstarted, fails an
\* assertion before it changes the directory, the lock or the log.
C10_PreconditionsAsserted ==
    [][((ev'.op \in ReadyOps \cup {"gc"} /\ state # "ready")
        \/ (ev'.op \in StartOps /\ state # "unstarted"))
         => (/\ fatal' = "assert_state"
             /\ UNCHANGED <<state, in_memory_index, disk_structure,
                            disk_structure_lock, starter, fsms>>)]_vars

\* C11: a set_block_offset/delete_block call in a ready directory, whatever
\* syncs and compactions are waiting or in flight, runs in one step, makes
\* get_block_offset answer the value just written (the tombstone after a
\* delete), and leaves the lock (holders and waiters) and every syncer and
\* compaction as they were.
C11_MappingImmediate ==
    [][(ev'.op \in {"set_block_offset", "delete_block"} /\ fatal' = "none")
         => /\ \A b \in BlockIds :
                 ver'[b] # ver[b]
                   => /\ index_get_block_offset(Deref(in_memory_index'), b)
                           = written'[b]
                      /\ ev'.op = "delete_block"
                           => index_get_block_offset(Deref(in_memory_index'), b)
                                = DELETE_BLOCK
            /\ \E b \in BlockIds : ver'[b] # ver[b]
            /\ disk_structure_lock' = disk_structure_lock
            /\ fsms' = fsms]_vars

\* a set_block_offset made while a syncer's flush is in flight and a
\* compaction waits for the lock behind it
C11_Witness ==
    /\ ev.op = "set_block_offset" /\ fatal = "none"
    /\ disk_structure_lock.state = "reading"
    /\ disk_structure_lock.queue # << >>
    /\ \E k \in FsmIds : fsms[k].kind = "gc" /\ fsms[k].pc = "lockwait"
    /\ \E b \in BlockIds : written[b] \in Offsets
                           /\ index_get_block_offset(Deref(in_memory_index), b)
                                = written[b]

\* In a step: a syncer's flush is in flight before it (SyncInFlight), the
\* step is a sync() call (SyncCalled), the syncer it created has issued
\* its flush in the step (NewSyncFlushed: it finished in the step or is
\* flushing after it), the call created a compaction (GcTriggered).
SyncInFlight ==
    \E k \in FsmIds : fsms[k].kind = "sync" /\ fsms[k].pc = "flushing"
SyncCalled == ev'.op = "sync" /\ fatal = "none" /\ state = "ready"
NewSyncFlushed ==
    \E i \in FsmIds :
       /\ fsms[i].kind = "none"
       /\ \/ ev'.fin = i
          \/ fsms'[i].kind = "sync" /\ fsms'[i].pc = "flushing"
GcTriggered ==
    \E j \in FsmIds :
       fsms[j].kind = "none" /\ (fsms'[j].kind = "gc" \/ ev'.gfin = j)

\* C12 as stated: a sync() called while another sync's flush is in flight
\* is granted the lock and issues its flush in the call, whatever the
\* compaction it may trigger on entry does.
C12_SecondSyncNotBlocked ==
    [][(SyncCalled /\ SyncInFlight) => NewSyncFlushed]_vars

\* C12 amended: a sync() called while another sync's flush is in flight
\* is granted the lock and issues its flush in the call, the first sync
\* still in flight, if no compaction waits for the lock and the call
\* triggers none; if the call triggers a compaction, the compaction queues
\* behind the first sync and the new syncer queues behind the compaction.
C12_SecondSyncSharesLock ==
    [][(SyncCalled /\ SyncInFlight)
         => /\ (disk_structure_lock.queue = << >> /\ ~GcTriggered)
                 => /\ NewSyncFlushed
                    /\ \A k \in FsmIds :
                          (fsms[k].kind = "sync" /\ fsms[k].pc = "flushing")
                            => fsms'[k] = fsms[k]
            /\ GcTriggered
                 => /\ ~NewSyncFlushed
                    /\ \E i, j \in FsmIds :
                          /\ fsms[i].kind = "none" /\ fsms[j].kind = "none"
                          /\ fsms'[j].kind = "gc" /\ fsms'[j].pc = "lockwait"
                          /\ fsms'[i].kind = "sync"
                          /\ fsms'[i].pc = "lockwait"]_vars

\* two syncs hold the lock in read mode, both flushes in flight
C12_Witness ==
    /\ ev.op = "sync" /\ fatal = "none"
    /\ disk_structure_lock.state = "reading"
    /\ disk_structure_lock.nreaders = 2
    /\ Cardinality({k \in FsmIds : fsms[k].kind = "sync"
                                     /\ fsms[k].pc = "flushing"}) = 2

\* C13: in every ready state, for every block id, the last entry of the
\* current generation for that id, if there is one, is the table's value
\* for that id.
C13_TableAsCurrentAsLog ==
    state = "ready"
      => \A b \in BlockIds :
            LET es == Deref(disk_structure).entries
            IN  LastIdx(es, b) # 0
                  => /\ b < index_max_block_id(Deref(in_memory_index))
                     /\ es[LastIdx(es, b)].off
                          = index_get_block_offset(Deref(in_memory_index), b)

\* a delete_block appended to the generation a compaction has just
\* installed and is still flushing, superseding the copied entry
C13_Witness ==
    /\ state = "ready" /\ ev.op = "delete_block" /\ fatal = "none"
    /\ \E j \in FsmIds : fsms[j].kind = "gc" /\ fsms[j].pc = "flushing"
    /\ LET es == Deref(disk_structure).entries
       IN  /\ Len(es) > index_max_block_id(Deref(in_memory_index))
           /\ \E b \in BlockIds : LastIdx(es, b) = Len(es) /\ ver[b] = 2

\* C14: in every ready state every set/delete call covered by a completed
\* sync is in the durable contents of the current generation (the durable
\* log holds that call's entry for the id, or a later one), also between a
\* compaction's replace step and the completion of its flush.
C14_DurableSurvivesCompaction ==
    (state = "ready" /\ fatal = "none")
      => \A b \in BlockIds : DurableVer(disk_structure, b) >= synced[b]

\* C15: right after a compaction's replace step (which runs destroy,
\* create and copy in one step) the current generation holds exactly one
\* entry per block id below max_block_id(), in id order and nothing else,
\* each with the table's value for the id (the tombstone for a deleted or
\* never set id).
C15_ReplaceCopiesTable ==
    (ev.rep # 0 /\ disk_structure # NULL /\ in_memory_index # NULL)
      => LET es == Deref(disk_structure).entries
             idx == Deref(in_memory_index)
         IN  /\ Len(es) = index_max_block_id(idx)
             /\ \A k \in 1 .. Len(es) :
                   /\ es[k].id = k - 1
                   /\ es[k].off = index_get_block_offset(idx, k - 1)

\* a replace step that waited for the lock has copied a table of two ids,
\* one never set or deleted (a tombstone entry) and one set
C15_Witness ==
    /\ ev.rep # 0 /\ ev.op = "gc_on_lock_available"
    /\ fatal = "none" /\ state = "ready"
    /\ LET es == Deref(disk_structure).entries
       IN  /\ Len(es) = 2
           /\ es[1].off = DELETE_BLOCK /\ es[2].off \in Offsets

\* ---------------------------------------------------------------- liveness
\* The directory used as its contract asks: no shutdown, no call in a state
\* the operation does not allow.  Every deferred completion that is due (a
\* load, a lock grant's on_lock_available, a flush's on_sync_lba) is
\* eventually delivered.
GcWhenReady(imm, ub) == state = "ready" /\ Gc(imm, ub)

NextLive ==
    \/ Start
    \/ \E log \in PersistedLogs, done \in BOOLEAN : StartLoad(log, done)
    \/ OnLoadLba
    \/ GenBlockId
    \/ \E b \in BlockIds, off \in Offsets : SetBlockOffset(b, off)
    \/ \E b \in BlockIds : DeleteBlock(b)
    \/ \E trigger, immGc, immSync \in BOOLEAN, ub \in UbOutcomes :
          Sync(trigger, immGc, immSync, ub)
    \/ \E imm \in BOOLEAN, ub \in UbOutcomes : GcWhenReady(imm, ub)
    \/ \E i \in FsmIds, imm \in BOOLEAN, ub \in UbOutcomes :
          SyncerOnLockAvailable(i, imm, ub)
    \/ \E i \in FsmIds, ub \in UbOutcomes : SyncerOnSyncLba(i, ub)
    \/ \E j \in FsmIds, imm \in BOOLEAN, ub \in UbOutcomes :
          GcOnLockAvailable(j, imm, ub)
    \/ \E j \in FsmIds, ub \in UbOutcomes : GcOnSyncLba(j, ub)

\* the completion that is due for the object of slot i (at most one is)
Deliver(i) ==
    \/ \E imm \in BOOLEAN, ub \in UbOutcomes : SyncerOnLockAvailable(i, imm, ub)
    \/ \E ub \in UbOutcomes : SyncerOnSyncLba(i, ub)
    \/ \E imm \in BOOLEAN, ub \in UbOutcomes : GcOnLockAvailable(i, imm, ub)
    \/ \E ub \in UbOutcomes : GcOnSyncLba(i, ub)

Deliveries ==
    /\ WF_vars(OnLoadLba)
    /\ \A i \in FsmIds : WF_vars(Deliver(i))

LiveSpec == Init /\ [][NextLive]_vars /\ Deliveries

\* C16: every sync() that returned false eventually has its on_lba_sync
\* callback invoked, and every compaction eventually reaches its cleanup
\* step.
C16_EverythingCompletes ==
    \A k \in FsmIds :
       (fsms[k].kind # "none")
         ~> (ev.gfin = k \/ (ev.fin = k /\ ev.fcbs = 1))

\* which generation is current (-1: none)
GenOf(p) == IF p = NULL THEN -1 ELSE Deref(p).gen

\* C17: in every step that is no misuse of the directory (no call in a
\* state the operation does not allow) the current generation
\* changes only at startup, at shutdown, or in a compaction's replace step
\* run with the lock held in write mode; the mapping operations, a sync
\* that triggers no compaction, the syncer's callbacks and
\* prepare_metablock leave it the generation it was; sync, compaction and
\* prepare_metablock leave the table unchanged.
C17_GenerationChangesOnlyInReplace ==
    [][fatal' \notin {"ub", "assert_state"}
         => /\ GenOf(disk_structure') # GenOf(disk_structure)
                 => \/ ev'.op \in {"start", "start_load", "on_load_lba",
                                   "shutdown"}
                    \/ ev'.rep # 0 /\ ev'.replk = "writing"
            /\ (\/ ev'.op \in {"gen_block_id", "max_block_id",
                               "get_block_offset", "set_block_offset",
                               "delete_block", "prepare_metablock",
                               "syncer_on_lock_available",
                               "syncer_on_sync_lba", "gc_on_sync_lba"}
                \/ ev'.op = "sync" /\ ev'.rep = 0)
                 => GenOf(disk_structure') = GenOf(disk_structure)
            /\ ev'.op \in {"sync", "gc", "syncer_on_lock_available",
                           "syncer_on_sync_lba", "gc_on_lock_available",
                           "gc_on_sync_lba", "prepare_metablock"}
                 => in_memory_index' = in_memory_index]_vars

\* a compaction that waited for the lock has replaced the first generation
\* of a directory that holds a written block
C17_Witness ==
    /\ ev.op = "gc_on_lock_available" /\ ev.rep # 0 /\ ev.replk = "writing"
    /\ fatal = "none" /\ state = "ready"
    /\ GenOf(disk_structure) = 1
    /\ \E b \in BlockIds : written[b] \in Offsets

\* the syncers and compactions whose flush is issued and not completed;
\* the objects the lock has granted a request of, whose on_lock_available
\* is due; the objects waiting in the lock's queue
Flushing == {k \in FsmIds : fsms[k].pc = "flushing"}
Granted(kind) ==
    {k \in FsmIds : fsms[k].kind = kind /\ fsms[k].pc = "granted"}
Waiting == {k \in FsmIds : fsms[k].pc = "lockwait"}
\* the process lives and nothing has run through a NULL disk_structure
Sound == fatal = "none" /\ \A k \in FsmIds : fsms[k].pc # "failed"

\* C18 as stated: in every state the read-mode holders of the lock are as
\* many as the syncs and compactions whose flush is issued and not
\* completed, the lock is in write mode in no state (only inside a replace
\* step), and with no sync or compaction in flight it is free with no
\* waiters.
C18_LockBalanced ==
    Sound
      => /\ disk_structure_lock.nreaders = Cardinality(Flushing)
         /\ disk_structure_lock.state # "writing"
         /\ (\A k \in FsmIds : fsms[k].kind = "none")
              => disk_structure_lock = rwi_new

\* C18 amended: the read-mode holders are the syncs and compactions whose
\* flush is in flight and the syncs granted the lock whose
\* on_lock_available is due; the lock is in write mode exactly while one
\* compaction has been granted it and its on_lock_available is due; the
\* queue holds the waiting objects; with nothing in flight the lock is free
\* with no waiters.
C18_LockBalancedWithGrants ==
    Sound
      => /\ disk_structure_lock.nreaders
              = Cardinality(Flushing \cup Granted("sync"))
         /\ (disk_structure_lock.state = "reading")
              = (disk_structure_lock.nreaders > 0)
         /\ (disk_structure_lock.state = "writing")
              = (Cardinality(Granted("gc")) = 1)
         /\ Cardinality(Granted("gc")) <= 1
         /\ Len(disk_structure_lock.queue) = Cardinality(Waiting)
         /\ \A n \in 1 .. Len(disk_structure_lock.queue) :
               disk_structure_lock.queue[n].who \in Waiting
         /\ (\A k \in FsmIds : fsms[k].kind = "none")
              => disk_structure_lock = rwi_new

\* a compaction has been granted the write lock by a finishing sync, a
\* second sync waits in the queue
C18_Witness ==
    /\ Sound
    /\ disk_structure_lock.state = "writing"
    /\ Granted("gc") # {}
    /\ \E k \in Waiting : fsms[k].kind = "sync"

\* the process has not died of a misuse (a call in a state the operation
\* does not allow, or through a NULL disk_structure)
NoMisuse == fatal \notin {"ub", "assert_state"}

\* C19 as stated: every flush in flight was issued on the generation that
\* is current (so no replace step has destroyed the generation of a flush
\* in flight, and every on_sync_lba is delivered for the current
\* generation).
C19_FlushOnCurrentGeneration ==
    NoMisuse
      => \A k \in Flushing : fsms[k].fgen = GenOf(disk_structure)

\* C19 amended: until shutdown, every flush in flight was issued on the
\* generation that is current; a flush is in flight without a current
\* generation only after shutdown().
C19_FlushOnCurrentUntilShutdown ==
    NoMisuse
      => \A k \in Flushing :
            /\ state \in {"ready", "shut_down"}
            /\ state = "ready" => fsms[k].fgen = GenOf(disk_structure)
            /\ state = "shut_down" => disk_structure = NULL

\* a sync's flush is in flight on a generation that a compaction
\* installed, and the next compaction waits for the lock to destroy it
C19_Witness ==
    /\ fatal = "none" /\ state = "ready"
    /\ GenOf(disk_structure) = 1
    /\ \E k \in Flushing : fsms[k].kind = "sync" /\ fsms[k].fgen = 1
    /\ \E j \in Waiting : fsms[j].kind = "gc"

\* C20: every step of a sync or of a compaction that runs after a deferred
\* lock grant and accesses the current generation (the syncer's flush, the
\* compaction's destroy/create/copy/flush) runs while the directory is
\* ready and the generation exists.
C20_StepsRunWhileReady ==
    [][ev'.op \in {"syncer_on_lock_available", "gc_on_lock_available"}
         => (state = "ready" /\ disk_structure # NULL)]_vars

====
